---- MODULE Spec2Model ----
(***************************************************************************)
(* Model of src/app.py, a Streamlit named-entity-recognition application.  *)
(*                                                                         *)
(* Streamlit re-executes the whole script once per user event.  The state  *)
(* that survives between two executions is st.session_state                *)
(* (saved_sessions, selected_ents), the values of the widgets, and the     *)
(* st.cache_resource cache of load_model.  One action of the model is one  *)
(* user event followed by the script execution it triggers (and, for       *)
(* "Select All Entities", the rerun the script itself asks for).           *)
(*                                                                         *)
(* Python lists are objects with identity: session_state.selected_ents and *)
(* a snapshot's "selected_ents" hold references.  The model keeps a heap   *)
(* of list objects so that sharing and in-place mutation are expressible.  *)
(***************************************************************************)
EXTENDS Integers, Sequences, FiniteSets, TLC

(***************************************************************************)
(* Bounds of the model.                                                    *)
(***************************************************************************)
MaxSessions == 2      \* extractions recorded in one process
MaxEvents == 7        \* user events (script runs) in one process
MaxFilterSpans == 3   \* length of the span list in the filter-only runs

(***************************************************************************)
(* Program constants.                                                      *)
(***************************************************************************)
\* keys of `colors`; the program lists 14, the model keeps the first three
EntityOptions == {"PERSON", "ORG", "GPE"}
\* labels of the filter-only runs: options of `colors` and one label outside
FilterLabels == {"PERSON", "ORG", "GPE", "TIME"}
\* options of the "spaCy model" selectbox
Models == {"en_core_web_sm", "en_core_web_trf"}
\* a selectbox starts on its first option
DefaultModel == "en_core_web_sm"
\* load_model's failure value
None == "None"
Absent == "<absent>"
\* an unbound local / a name the run did not reach
NoText == "<unbound>"
PDFError == "[PDF extraction error]"
DOCXError == "[DOCX extraction error]"
\* the UnicodeDecodeError that bytes.decode raises
Raised == "<UnicodeDecodeError>"
\* "selected_ents" not in st.session_state
NoRef == 0

\* the texts a user types or uploads
TypedText == "Alice works at Acme Corp in Paris."
FileText == "Meet at 5 pm."

\* st.file_uploader's value: None, or a file with a name and bytes
NoFile == [ext |-> "none", ok |-> TRUE, content |-> ""]
Files ==
  [ext : {"txt", "pdf", "docx"}, ok : {TRUE}, content : {FileText}]
    \cup [ext : {"txt", "pdf", "docx"}, ok : {FALSE}, content : {""}]
TypedTexts == {"", TypedText}

\* what a pipeline finds in the texts of the model: the labels of doc.ents
NER(model, txt) ==
  IF txt = TypedText THEN <<"PERSON", "ORG", "GPE">>
  ELSE IF txt = FileText THEN <<"TIME">>
  ELSE <<>>

ObjIds == 1..(MaxSessions + 2)

VARIABLES
  events,          \* number of user events so far
  installed,       \* environment: the spaCy pipelines that can be loaded
  cache,           \* st.cache_resource cache of load_model, by name
  loadCount,       \* number of spacy.load calls made, by name
  model_choice,    \* selectbox value
  uploaded_file,   \* file_uploader value
  typed,           \* value of the "Enter text manually" text area
  heap,            \* list objects: object id -> labels held
  selected_ents,   \* st.session_state.selected_ents (a reference)
  saved_sessions,  \* st.session_state.saved_sessions
  nlp,             \* the last run's nlp
  text,            \* the last run's text
  extract_button,  \* the last run's extract_button
  load_button,     \* i when "Load session #i" was pressed in the last run
  extracted,       \* the last run executed the extraction block
  doc_ents,        \* the last run's doc.ents
  filtered_ents,   \* the last run's filtered_ents
  outcome,         \* what the last run showed / how it ended
  shown,           \* snapshots listed by the Saved Sessions tab, in order
  loaded_text      \* text shown by "Loaded session text (read-only)"

vars == <<events, installed, cache, loadCount, model_choice, uploaded_file, typed,
          heap, selected_ents, saved_sessions, nlp, text, extract_button,
          load_button, extracted, doc_ents, filtered_ents, outcome, shown,
          loaded_text>>

(***************************************************************************)
(* Helpers: text extraction (lines 19-36, 96-106).                         *)
(***************************************************************************)
extract_text_from_pdf(f) == IF f.ok THEN f.content ELSE PDFError

extract_text_from_docx(f) == IF f.ok THEN f.content ELSE DOCXError

\* uploaded_file.getvalue().decode("utf-8"): no try/except around it
decode(f) == IF f.ok THEN f.content ELSE Raised

AcquireText(f, ty) ==
  IF f # NoFile
  THEN IF f.ext = "pdf" THEN extract_text_from_pdf(f)
       ELSE IF f.ext = "docx" THEN extract_text_from_docx(f)
       ELSE decode(f)
  ELSE ty

(***************************************************************************)
(* load_model under st.cache_resource (lines 77-84).                       *)
(***************************************************************************)
load_modelFallback(name, inst) ==
  IF name \in inst THEN name
  ELSE IF DefaultModel \in inst THEN DefaultModel ELSE None

\* spacy.load(name), None when it raises; a loaded pipeline is named by id
load_model(name, inst) == IF name \in inst THEN name ELSE None

CacheHitSuccessOnly(c, name) == c[name] # Absent /\ c[name] # None

\* st.cache_resource memoises whatever the function returned, None included
CacheHit(c, name) == c[name] # Absent

(***************************************************************************)
(* The heap of list objects.                                               *)
(***************************************************************************)
SnapRefs(s) == {s.saved_sessions[i].selected_ents : i \in 1..Len(s.saved_sessions)}

Refs(s) == ({s.selected_ents} \ {NoRef}) \cup SnapRefs(s)

\* a new list object: an address no live object occupies
Fresh(s) == CHOOSE o \in ObjIds \ Refs(s) : \A p \in ObjIds \ Refs(s) : o <= p

\* lists nothing refers to are freed
Collect(s) == [s EXCEPT !.heap = [o \in ObjIds |-> IF o \in Refs(s) THEN s.heap[o] ELSE {}]]

StoreSelectionInPlace(s, val) ==
  IF s.selected_ents = NoRef
  THEN LET o == Fresh(s) IN [s EXCEPT !.heap[o] = val, !.selected_ents = o]
  ELSE [s EXCEPT !.heap[s.selected_ents] = val]

\* st.session_state.selected_ents = <a new list holding val>: a rebinding
StoreSelection(s, val) ==
  LET o == Fresh(s) IN [s EXCEPT !.heap[o] = val, !.selected_ents = o]

(***************************************************************************)
(* Entity filter (line 135) and the table rows (lines 137-145).            *)
(***************************************************************************)
\* doc.ents for the labels the pipeline emits, left to right
Ents(labs) == [i \in 1..Len(labs) |-> [start |-> i, label |-> labs[i]]]

RECURSIVE FilterUpTo(_, _, _)
FilterUpTo(ents, allowed, n) ==
  IF n = 0 THEN <<>>
  ELSE LET acc == FilterUpTo(ents, allowed, n - 1)
       IN IF ents[n].label \in allowed THEN Append(acc, ents[n]) ELSE acc

RECURSIVE FilterPrepending(_, _, _)
FilterPrepending(ents, allowed, n) ==
  IF n = 0 THEN <<>>
  ELSE LET acc == FilterPrepending(ents, allowed, n - 1)
       IN IF ents[n].label \in allowed THEN <<ents[n]>> \o acc ELSE acc

FilterReversed(ents, allowed) == FilterPrepending(ents, allowed, Len(ents))

FilterKeepAll(ents, allowed) == ents

\* [ent for ent in doc.ents if ent.label_ in st.session_state.selected_ents]
Filter(ents, allowed) == FilterUpTo(ents, allowed, Len(ents))

\* df.to_dict(orient="records")
Records(ents) == [i \in 1..Len(ents) |-> [Start |-> ents[i].start, Label |-> ents[i].label]]

ShouldExtractAnyText(button, txt) == button

\* if extract_button and text:
ShouldExtract(button, txt) == button /\ txt # ""

MessageAlwaysSuccess(filtered) == "success"

\* if filtered_ents: st.success(...) else: st.warning(...)
Message(filtered) == IF filtered # <<>> THEN "success" ELSE "no_entities"

RecordKeepLatest(sessions, snap) == <<snap>>

\* st.session_state.saved_sessions.append(session_snapshot)
Record(sessions, snap) == Append(sessions, snap)

NewestFirstOldestFirst(sessions) == sessions

\* st.session_state.saved_sessions[::-1]
NewestFirst(sessions) == [i \in 1..Len(sessions) |-> sessions[Len(sessions) + 1 - i]]

(***************************************************************************)
(* One execution of the script, as a function of the state before it and   *)
(* of the run's inputs `in` (widget values and the button pressed).        *)
(***************************************************************************)
State ==
  [cache |-> cache, loadCount |-> loadCount, model_choice |-> model_choice,
   uploaded_file |-> uploaded_file, typed |-> typed, heap |-> heap,
   selected_ents |-> selected_ents, saved_sessions |-> saved_sessions,
   nlp |-> nlp, text |-> text, extract_button |-> extract_button,
   load_button |-> load_button, extracted |-> extracted,
   doc_ents |-> doc_ents, filtered_ents |-> filtered_ents,
   outcome |-> outcome, shown |-> shown, loaded_text |-> loaded_text]

\* lines 44-87: session setup, sidebar widgets, nlp = load_model(model_choice)
LoadStage(s, in, inst) ==
  LET name == in.model_choice
      hit == CacheHit(s.cache, name)
      model == IF hit THEN s.cache[name] ELSE load_model(name, inst)
      s1 == [s EXCEPT !.model_choice = name,
                      !.uploaded_file = in.uploaded_file,
                      !.typed = "",   \* a text area that is not drawn loses its value
                      !.cache = IF hit THEN @ ELSE [@ EXCEPT ![name] = model],
                      !.loadCount = IF hit THEN @ ELSE [@ EXCEPT ![name] = @ + 1],
                      !.nlp = model,
                      !.text = NoText,
                      !.extract_button = FALSE,
                      !.load_button = 0,
                      !.extracted = FALSE,
                      !.doc_ents = <<>>,
                      !.filtered_ents = <<>>,
                      !.shown = <<>>,
                      !.loaded_text = NoText,
                      !.outcome = "running"]
  IN IF model = None THEN [s1 EXCEPT !.outcome = "model_error"] ELSE s1

\* lines 94-122: text acquisition, the multiselect, the two buttons
InputTab(s, in) ==
  LET txt == AcquireText(in.uploaded_file, in.typed)
  IN IF txt = Raised THEN [s EXCEPT !.outcome = "exception"]
     ELSE
       LET s1 == [s EXCEPT !.text = txt,
                           !.typed = IF in.uploaded_file = NoFile THEN in.typed ELSE ""]
           s2 == IF s1.selected_ents = NoRef
                 THEN LET o == Fresh(s1)
                      IN [s1 EXCEPT !.heap[o] = EntityOptions, !.selected_ents = o]
                 ELSE s1
           val == IF in.selection.changed THEN in.selection.val
                  ELSE s2.heap[s2.selected_ents]
           s3 == StoreSelection(s2, val)
           s4 == [s3 EXCEPT !.extract_button = in.extract_button]
       IN IF in.select_all_button
          THEN LET o == Fresh(s4)
               IN [s4 EXCEPT !.heap[o] = EntityOptions, !.selected_ents = o,
                             !.outcome = "rerun"]
          ELSE s4

\* lines 130-155: extraction, filtering, the snapshot, the message
Extraction(s, in) ==
  IF ShouldExtract(s.extract_button, s.text)
  THEN LET ents == Ents(NER(s.nlp, s.text))
           filtered == Filter(ents, s.heap[s.selected_ents])
           session_snapshot == [text |-> s.text,
                                entities |-> Records(filtered),
                                selected_ents |-> s.selected_ents,
                                model |-> s.model_choice]
       IN [s EXCEPT !.extracted = TRUE,
                    !.doc_ents = ents,
                    !.filtered_ents = filtered,
                    !.saved_sessions = Record(@, session_snapshot),
                    !.outcome = Message(filtered)]
  ELSE [s EXCEPT !.outcome = "idle"]

\* lines 229-241: the Saved Sessions tab and its "Load session #i" buttons
SavedSessionsTab(s, in) ==
  LET listing == NewestFirst(s.saved_sessions)
      s1 == [s EXCEPT !.shown = listing, !.load_button = in.load_button]
  IN IF in.load_button \in 1..Len(listing)
     THEN [s1 EXCEPT !.selected_ents = listing[in.load_button].selected_ents,
                     !.loaded_text = listing[in.load_button].text]
     ELSE s1

Script(s, in, inst) ==
  LET a == LoadStage(s, in, inst)
  IN IF a.outcome # "running" THEN a
     ELSE LET b == InputTab(a, in)
          IN IF b.outcome # "running" THEN b
             ELSE SavedSessionsTab(Extraction(b, in), in)

\* the inputs of a run in which the user changed nothing
Quiet(s) ==
  [model_choice |-> s.model_choice, uploaded_file |-> s.uploaded_file,
   typed |-> s.typed, selection |-> [changed |-> FALSE, val |-> {}],
   select_all_button |-> FALSE, extract_button |-> FALSE, load_button |-> 0]

\* st.experimental_rerun() abandons the run and executes the script again
ScriptRun(s, in, inst) ==
  LET p == Script(s, in, inst)
  IN Collect(IF p.outcome = "rerun" THEN Script(p, Quiet(p), inst) ELSE p)

Run(in) ==
  /\ events < MaxEvents
  /\ \E r \in {ScriptRun(State, in, installed)} :
     /\ cache' = r.cache
     /\ loadCount' = r.loadCount
     /\ model_choice' = r.model_choice
     /\ uploaded_file' = r.uploaded_file
     /\ typed' = r.typed
     /\ heap' = r.heap
     /\ selected_ents' = r.selected_ents
     /\ saved_sessions' = r.saved_sessions
     /\ nlp' = r.nlp
     /\ text' = r.text
     /\ extract_button' = r.extract_button
     /\ load_button' = r.load_button
     /\ extracted' = r.extracted
     /\ doc_ents' = r.doc_ents
     /\ filtered_ents' = r.filtered_ents
     /\ outcome' = r.outcome
     /\ shown' = r.shown
     /\ loaded_text' = r.loaded_text
     /\ events' = events + 1
     /\ UNCHANGED installed

(***************************************************************************)
(* Which widgets the last run drew.                                        *)
(***************************************************************************)
SidebarRendered == outcome # "init"

MainRendered == outcome \in {"idle", "success", "no_entities"}

(***************************************************************************)
(* The state before the first run.                                         *)
(***************************************************************************)
Init ==
  /\ events = 0
  /\ installed \in SUBSET Models
  /\ cache = [m \in Models |-> Absent]
  /\ loadCount = [m \in Models |-> 0]
  /\ model_choice = DefaultModel
  /\ uploaded_file = NoFile
  /\ typed = ""
  /\ heap = [o \in ObjIds |-> {}]
  /\ selected_ents = NoRef
  /\ saved_sessions = <<>>
  /\ nlp = None
  /\ text = NoText
  /\ extract_button = FALSE
  /\ load_button = 0
  /\ extracted = FALSE
  /\ doc_ents = <<>>
  /\ filtered_ents = <<>>
  /\ outcome = "init"
  /\ shown = <<>>
  /\ loaded_text = NoText

(***************************************************************************)
(* User events.                                                            *)
(***************************************************************************)
PageLoad ==
  /\ outcome = "init"
  /\ Run(Quiet(State))

ChangeModel ==
  /\ SidebarRendered
  /\ \E m \in Models \ {model_choice} :
       Run([Quiet(State) EXCEPT !.model_choice = m])

Upload ==
  /\ SidebarRendered
  /\ \E f \in Files \ {uploaded_file} :
       Run([Quiet(State) EXCEPT !.uploaded_file = f])

RemoveUpload ==
  /\ SidebarRendered
  /\ uploaded_file # NoFile
  /\ Run([Quiet(State) EXCEPT !.uploaded_file = NoFile])

TypeText ==
  /\ MainRendered
  /\ uploaded_file = NoFile
  /\ \E t \in TypedTexts \ {typed} :
       Run([Quiet(State) EXCEPT !.typed = t])

ChangeSelection ==
  /\ MainRendered
  /\ \E S \in (SUBSET EntityOptions) \ {heap[selected_ents]} :
       Run([Quiet(State) EXCEPT !.selection = [changed |-> TRUE, val |-> S]])

ClickSelectAll ==
  /\ SidebarRendered
  /\ Run([Quiet(State) EXCEPT !.select_all_button = TRUE])

ClickExtract ==
  /\ MainRendered
  /\ Len(saved_sessions) < MaxSessions
  /\ Run([Quiet(State) EXCEPT !.extract_button = TRUE])

ClickLoad ==
  /\ MainRendered
  /\ \E i \in 1..Len(saved_sessions) :
       Run([Quiet(State) EXCEPT !.load_button = i])

Next ==
  \/ PageLoad
  \/ ChangeModel
  \/ Upload
  \/ RemoveUpload
  \/ TypeText
  \/ ChangeSelection
  \/ ClickSelectAll
  \/ ClickExtract
  \/ ClickLoad

Spec == Init /\ [][Next]_vars

(***************************************************************************)
(* The entity filter on its own: any span list, any label set.             *)
(***************************************************************************)
SpanLists == UNION {{Ents(labs) : labs \in [1..n -> FilterLabels]} : n \in 0..MaxFilterSpans}

FilterInit ==
  /\ events = 0
  /\ installed = Models
  /\ cache = [m \in Models |-> Absent]
  /\ loadCount = [m \in Models |-> 0]
  /\ model_choice = DefaultModel
  /\ uploaded_file = NoFile
  /\ typed = ""
  /\ \E allowed \in SUBSET FilterLabels :
       heap = [o \in ObjIds |-> IF o = 1 THEN allowed ELSE {}]
  /\ selected_ents = 1
  /\ saved_sessions = <<>>
  /\ nlp = DefaultModel
  /\ text = NoText
  /\ extract_button = TRUE
  /\ load_button = 0
  /\ extracted = FALSE
  /\ doc_ents \in SpanLists
  /\ filtered_ents = <<>>
  /\ outcome = "running"
  /\ shown = <<>>
  /\ loaded_text = NoText

ApplyFilter ==
  /\ ~extracted
  /\ filtered_ents' = Filter(doc_ents, heap[selected_ents])
  /\ extracted' = TRUE
  /\ outcome' = Message(filtered_ents')
  /\ UNCHANGED <<events, installed, cache, loadCount, model_choice,
                 uploaded_file, typed, heap, selected_ents, saved_sessions,
                 nlp, text, extract_button, load_button, doc_ents, shown,
                 loaded_text>>

FilterNext == ApplyFilter

FilterSpec == FilterInit /\ [][FilterNext]_vars

(***************************************************************************)
(* Properties.                                                             *)
(***************************************************************************)
Labels(ref) == heap[ref]

\* the snapshot listed as "Session #i": the i-th newest by insertion
IthNewest(sessions, i) == sessions[Len(sessions) + 1 - i]

\* C1 (as stated): a recorded snapshot's label set never changes, and the
\* snapshot holds a copy of the label list, never the list object that the
\* live selection refers to.
SnapshotNotShared ==
  \A i \in 1..Len(saved_sessions) : saved_sessions[i].selected_ents # selected_ents

SnapshotLabelsKept ==
  \A i \in 1..Len(saved_sessions) :
    i <= Len(saved_sessions') =>
      heap'[saved_sessions'[i].selected_ents] = heap[saved_sessions[i].selected_ents]

C2_AppendOnly ==
  [][/\ Len(saved_sessions') >= Len(saved_sessions)
     /\ \A i \in 1..Len(saved_sessions) : saved_sessions'[i] = saved_sessions[i]
     /\ (~extracted' => saved_sessions' = saved_sessions)
     /\ (load_button' # 0 => saved_sessions' = saved_sessions)]_vars

\* C2 witness: a load performed on a store that holds two snapshots.
C2_Witness == Len(saved_sessions) = 2 /\ load_button = 2

\* the k-th span the filter keeps is the k-th span of the input whose label
\* is allowed
KeptIdx(ents, allowed) == {i \in 1..Len(ents) : ents[i].label \in allowed}

IsSubsequenceOfAllowed(r, ents, allowed) ==
  /\ Len(r) = Cardinality(KeptIdx(ents, allowed))
  /\ \A k \in 1..Len(r) :
       \E i \in KeptIdx(ents, allowed) :
         /\ r[k] = ents[i]
         /\ Cardinality({j \in KeptIdx(ents, allowed) : j < i}) = k - 1

\* C3: the filtered list is exactly the subsequence of the emitted spans
\* whose label is in the label set, in the original order, and is no longer
\* than the input.
C3_FilterCorrect ==
  extracted =>
    /\ IsSubsequenceOfAllowed(filtered_ents, doc_ents, heap[selected_ents])
    /\ Len(filtered_ents) <= Len(doc_ents)

\* C3 witness: spans PERSON, ORG, GPE filtered by {PERSON, GPE}.
C3_Witness ==
  /\ extracted
  /\ doc_ents = Ents(<<"PERSON", "ORG", "GPE">>)
  /\ heap[selected_ents] = {"PERSON", "GPE"}
  /\ filtered_ents = <<[start |-> 1, label |-> "PERSON"], [start |-> 3, label |-> "GPE"]>>

\* C4: the label of every entity stored in a snapshot is a member of the
\* label list that snapshot stores.
C4_SnapshotLabelsInSet ==
  \A i \in 1..Len(saved_sessions) :
    \A k \in 1..Len(saved_sessions[i].entities) :
      saved_sessions[i].entities[k].Label \in Labels(saved_sessions[i].selected_ents)

\* C4 witness: a snapshot that kept one of three emitted entities, and a
\* snapshot of a text whose only entity has a label outside the options.
C4_Witness ==
  /\ \E i \in 1..Len(saved_sessions) :
       /\ saved_sessions[i].text = TypedText
       /\ Len(saved_sessions[i].entities) = 1
  /\ \E j \in 1..Len(saved_sessions) : saved_sessions[j].text = FileText

\* C5: when the selected model cannot be loaded the run shows the error
\* and stops: nothing is extracted, no snapshot is appended, and nlp is
\* never a model other than the selected one.
C5_ModelUnavailableHalts ==
  [][/\ nlp' \in {None, model_choice'}
     /\ model_choice' \notin installed =>
          /\ nlp' = None
          /\ outcome' = "model_error"
          /\ ~extracted'
          /\ doc_ents' = <<>>
          /\ saved_sessions' = saved_sessions]_vars

\* C5 witness: the model became unavailable after a snapshot was recorded
\* with another, installed, model.
C5_Witness ==
  /\ outcome = "model_error"
  /\ model_choice \notin installed
  /\ installed # {}
  /\ Len(saved_sessions) >= 1

\* C6: every run that reaches text acquisition ends with `text` bound to a
\* string; no exception leaves the script.
C6_AcquisitionNeverRaises ==
  (outcome \notin {"init", "model_error"}) => (outcome # "exception" /\ text # NoText)

\* C7: an extraction whose selection is empty, or matches no emitted span,
\* has an empty filtered result and ends in the "no entities" state, which
\* is neither the success state nor a halted state.
NothingMatches ==
  \A k \in 1..Len(doc_ents) : doc_ents[k].label \notin Labels(selected_ents)

C7_EmptyResultIsNormal ==
  /\ (extracted /\ (Labels(selected_ents) = {} \/ NothingMatches)) =>
        (filtered_ents = <<>> /\ outcome = "no_entities")
  /\ (outcome = "no_entities") => (extracted /\ filtered_ents = <<>>)
  /\ (outcome = "success") => (extracted /\ filtered_ents # <<>>)
  /\ (outcome \in {"model_error", "exception"}) => ~extracted

\* C7 witness: an extraction over a text with entities, run with the empty
\* selection.
C7_Witness ==
  /\ extracted
  /\ doc_ents # <<>>
  /\ Labels(selected_ents) = {}
  /\ outcome = "no_entities"

\* C8: spacy.load runs at most once per model name; once a name is cached
\* every later run gets the cached value and loads nothing.
C8_LoadOnce ==
  [][\A m \in Models :
       /\ loadCount'[m] <= 1
       /\ cache[m] # Absent =>
            /\ cache'[m] = cache[m]
            /\ loadCount'[m] = loadCount[m]
            /\ (model_choice' = m => nlp' = cache[m])]_vars

\* C8 witness: both names were loaded once, one of them failing, over at
\* least four runs.
C8_Witness ==
  /\ \A m \in Models : loadCount[m] = 1
  /\ \E m \in Models : cache[m] = None
  /\ events >= 4

\* C9: the Saved Sessions tab lists the snapshots newest first: a snapshot
\* just recorded is "Session #1" and pushes the earlier ones down by one,
\* and "Load session #i" replays the label list and the text of the i-th
\* newest snapshot.
C9_NewestFirst ==
  [][/\ \A i \in 1..Len(shown') : shown'[i] = IthNewest(saved_sessions', i)
     /\ extracted' =>
          /\ shown'[1].text = text'
          /\ \A i \in 1..Len(saved_sessions) :
               shown'[i + 1] = IthNewest(saved_sessions, i)
     /\ load_button' # 0 =>
          /\ selected_ents' = IthNewest(saved_sessions, load_button').selected_ents
          /\ heap'[selected_ents'] = heap[IthNewest(saved_sessions, load_button').selected_ents]
          /\ loaded_text' = IthNewest(saved_sessions, load_button').text]_vars

\* C9 witness: "Load session #2" on two snapshots with different labels
\* brought back the labels of the older one.
C9_Witness ==
  /\ Len(saved_sessions) = 2
  /\ load_button = 2
  /\ Labels(saved_sessions[1].selected_ents) # Labels(saved_sessions[2].selected_ents)
  /\ Labels(selected_ents) = Labels(saved_sessions[1].selected_ents)

\* C10: a run with the extract button pressed and a non-empty text appends
\* exactly one snapshot holding that text, the selected model and the
\* selection on screen when the button was pressed, also when the filtered
\* result is empty; every other run appends nothing.
C10_OneSnapshotPerExtraction ==
  [][IF extract_button' /\ text' \notin {"", NoText} /\ nlp' # None
     THEN /\ Len(saved_sessions') = Len(saved_sessions) + 1
          /\ saved_sessions'[Len(saved_sessions')].text = text'
          /\ saved_sessions'[Len(saved_sessions')].model = model_choice'
          /\ selected_ents # NoRef
          /\ heap'[saved_sessions'[Len(saved_sessions')].selected_ents] = heap[selected_ents]
          /\ \A i \in 1..Len(saved_sessions) : saved_sessions'[i] = saved_sessions[i]
     ELSE saved_sessions' = saved_sessions]_vars

\* C10 witness: an extraction with an empty filtered result recorded the
\* second snapshot.
C10_Witness ==
  /\ Len(saved_sessions) = 2
  /\ extracted
  /\ filtered_ents = <<>>
  /\ saved_sessions[2].entities = <<>>
  /\ saved_sessions[2].text = text

====
